---- MODULE Spec2Model ----
(***************************************************************************)
(* translate-t2g.py: transcript -> genomic coordinate translation.         *)
(*                                                                         *)
(* Two parts of the program are modelled:                                  *)
(*   - parse_cigar (lines 125-167), the CIGAR walk, one action per turn of *)
(*     its for statement (specifications Spec and FairSpec);               *)
(*   - the batch driver of __main__ (lines 210-236): map the sorted query  *)
(*     list, restore the original order, write the output file             *)
(*     (specifications MainSpec and MainFairSpec).                         *)
(*                                                                         *)
(* A CIGAR string and the text of a number are sequences of one-character  *)
(* strings: "3M" is <<"3", "M">>.  Transcript and chromosome names are     *)
(* atomic strings; only their equality and their order are used.           *)
(***************************************************************************)
EXTENDS Integers, Sequences, FiniteSets, TLC

VARIABLES
    cigar,          \* parse_cigar argument: the CIGAR string
    qpos,           \* parse_cigar argument: query position
    rpos,           \* parse_cigar argument: reference start
    pos,            \* groupby iterator: index of the first character not yet grouped
    result,         \* query position counter (line 140)
    ref_result,     \* reference position counter (line 141)
    ntok,           \* number of turns of the for statement taken so far
    pc,             \* "loop" | "ret_early" (163) | "ret_end" (167) | "ValueError" | "StopIteration"
    d,              \* __main__: the reference table read by read_file
    tr_list,        \* __main__: the query list, positions already numeric (line 205)
    queries,        \* __main__: rows mapped so far (line 211)
    for_list,       \* __main__: the list sorted(tr_list, ...) the mapping loop runs over
    idx,            \* __main__: index into for_list of the next query to map
    sorted_queries, \* __main__: rows in restored order (line 228)
    outfile,        \* __main__: lines of the output file; <<>> while not written
    mpc             \* __main__: "sort" | "map" | "restore" | "write" | "done" | "exit1"

cigarVars == <<cigar, qpos, rpos, pos, result, ref_result, ntok, pc>>
mainVars == <<d, tr_list, queries, for_list, idx, sorted_queries, outfile, mpc>>
vars == <<cigar, qpos, rpos, pos, result, ref_result, ntok, pc,
          d, tr_list, queries, for_list, idx, sorted_queries, outfile, mpc>>

----------------------------------------------------------------------------
(* Bounds of the model *)

\* generated well-formed CIGAR strings have 1..MaxTokens tokens
MaxTokens == 2
\* generated query positions are 0..MaxQpos
MaxQpos == 3
\* arbitrary (possibly malformed) CIGAR strings have 0..MaxStrLen characters
MaxStrLen == 3
\* the query list has 0..MaxQueries rows
MaxQueries == 3
\* query positions of the query list are 0..MaxTpos
MaxTpos == 1

----------------------------------------------------------------------------
(* Python built-ins used by parse_cigar *)

Digits == {"0", "1", "2", "3", "4", "5", "6", "7", "8", "9"}

\* str.isdigit on one character (line 142)
isdigit(c) == c \in Digits

DigitVal(c) ==
    CASE c = "0" -> 0 [] c = "1" -> 1 [] c = "2" -> 2 [] c = "3" -> 3
      [] c = "4" -> 4 [] c = "5" -> 5 [] c = "6" -> 6 [] c = "7" -> 7
      [] c = "8" -> 8 [] c = "9" -> 9

\* int(''.join(length_digits)) on a run of digits (line 145), base 10
RECURSIVE int(_)
int(s) ==
    IF s = <<>> THEN 0
    ELSE 10 * int(SubSeq(s, 1, Len(s) - 1)) + DigitVal(s[Len(s)])

\* itertools.groupby(cigar, isdigit): the group that starts at index i ends at
\* the last index of the maximal run of characters with the same isdigit key
GroupEnd(s, i) ==
    CHOOSE j \in i..Len(s) :
        /\ \A k \in i..j : isdigit(s[k]) = isdigit(s[i])
        /\ j = Len(s) \/ isdigit(s[j + 1]) # isdigit(s[i])

----------------------------------------------------------------------------
(* parse_cigar *)

\* line 138: alignment match types that consume query
q_consume == {"M", "I", "S", "=", "X"}

\* ref_consume under the usual SAM reading, where a hard clip consumes nothing
ref_consume_noHardClip == {"M", "D", "=", "X"}

\* line 139: alignment match types that consume reference
ref_consume == {"M", "D", "H", "=", "X"}

\* LoopBody with the sign of the partial amount flipped at line 162
LoopBody_signFlipped(length, op, q, res, ref) ==
    IF res < q
    THEN IF res + length <= q
         THEN [result     |-> IF op \in q_consume THEN res + length ELSE res,
               ref_result |-> IF op \in ref_consume THEN ref + length ELSE ref,
               pc         |-> "loop"]
         ELSE IF op \in q_consume /\ op \in ref_consume
              THEN [result     |-> res + (q - res),
                    ref_result |-> ref + (res - q),
                    pc         |-> "ret_early"]
              ELSE IF op \in ref_consume
                   THEN [result |-> res, ref_result |-> ref + length, pc |-> "loop"]
                   ELSE [result |-> res, ref_result |-> ref, pc |-> "loop"]
    ELSE [result |-> res, ref_result |-> ref, pc |-> "loop"]

\* LoopBody that still adds a reference-only token once the end position is reached
LoopBody_noFreeze(length, op, q, res, ref) ==
    IF res < q
    THEN IF res + length <= q
         THEN [result     |-> IF op \in q_consume THEN res + length ELSE res,
               ref_result |-> IF op \in ref_consume THEN ref + length ELSE ref,
               pc         |-> "loop"]
         ELSE IF op \in q_consume /\ op \in ref_consume
              THEN [result     |-> res + (q - res),
                    ref_result |-> ref + (q - res),
                    pc         |-> "ret_early"]
              ELSE IF op \in ref_consume
                   THEN [result |-> res, ref_result |-> ref + length, pc |-> "loop"]
                   ELSE [result |-> res, ref_result |-> ref, pc |-> "loop"]
    ELSE [result     |-> res,
          ref_result |-> IF op \in ref_consume /\ op \notin q_consume THEN ref + length ELSE ref,
          pc         |-> "loop"]

\* LoopBody whose test at line 159 is "op in q_consume" alone: a query-only
\* token that overshoots ends the walk
LoopBody_queryOnlyReturns(length, op, q, res, ref) ==
    IF res < q
    THEN IF res + length <= q
         THEN [result     |-> IF op \in q_consume THEN res + length ELSE res,
               ref_result |-> IF op \in ref_consume THEN ref + length ELSE ref,
               pc         |-> "loop"]
         ELSE IF op \in q_consume
              THEN [result     |-> res + (q - res),
                    ref_result |-> IF op \in ref_consume THEN ref + (q - res) ELSE ref,
                    pc         |-> "ret_early"]
              ELSE IF op \in ref_consume
                   THEN [result |-> res, ref_result |-> ref + length, pc |-> "loop"]
                   ELSE [result |-> res, ref_result |-> ref, pc |-> "loop"]
    ELSE [result |-> res, ref_result |-> ref, pc |-> "loop"]

\* LoopBody that adds the whole length at line 162 instead of the partial amount
LoopBody_wholeLength(length, op, q, res, ref) ==
    IF res < q
    THEN IF res + length <= q
         THEN [result     |-> IF op \in q_consume THEN res + length ELSE res,
               ref_result |-> IF op \in ref_consume THEN ref + length ELSE ref,
               pc         |-> "loop"]
         ELSE IF op \in q_consume /\ op \in ref_consume
              THEN [result     |-> res + (q - res),
                    ref_result |-> ref + length,
                    pc         |-> "ret_early"]
              ELSE IF op \in ref_consume
                   THEN [result |-> res, ref_result |-> ref + length, pc |-> "loop"]
                   ELSE [result |-> res, ref_result |-> ref, pc |-> "loop"]
    ELSE [result |-> res, ref_result |-> ref, pc |-> "loop"]

\* lines 148-166: the body of the for statement for one (length, op).
\* pc is "ret_early" when the body returns ref_result at line 163, "loop"
\* when the for statement goes on.
LoopBody(length, op, q, res, ref) ==
    IF res < q
    THEN IF res + length <= q
         THEN [result     |-> IF op \in q_consume THEN res + length ELSE res,
               ref_result |-> IF op \in ref_consume THEN ref + length ELSE ref,
               pc         |-> "loop"]
         ELSE IF op \in q_consume /\ op \in ref_consume
              THEN [result     |-> res + (q - res),
                    ref_result |-> ref + (q - res),
                    pc         |-> "ret_early"]
              ELSE IF op \in ref_consume
                   THEN [result |-> res, ref_result |-> ref + length, pc |-> "loop"]
                   ELSE [result |-> res, ref_result |-> ref, pc |-> "loop"]
    ELSE [result |-> res, ref_result |-> ref, pc |-> "loop"]

\* ForIteration that hands the same group to the next turn again
ForIteration_noAdvance(cig, q, st) ==
    LET e1 == GroupEnd(cig, st.pos) IN
    IF ~isdigit(cig[st.pos])
    THEN [st EXCEPT !.pc = "ValueError"]
    ELSE IF e1 = Len(cig)
    THEN [st EXCEPT !.pc = "StopIteration", !.pos = e1 + 1]
    ELSE LET length == int(SubSeq(cig, st.pos, e1))
             op     == cig[e1 + 1]
         IN  [pos |-> st.pos] @@ LoopBody(length, op, q, st.result, st.ref_result)

\* lines 144-166: one turn of the for statement, taken when the groupby
\* iterator still has a group (st.pos <= Len(cig)).
\*   line 145: int() of a group that is not a digit run raises ValueError;
\*   line 146: next(cig_iter_grp) with no group left raises StopIteration;
\*             the operator is the FIRST character of the following group,
\*             whose other characters the next turn skips.
ForIteration(cig, q, st) ==
    LET e1 == GroupEnd(cig, st.pos) IN
    IF ~isdigit(cig[st.pos])
    THEN [st EXCEPT !.pc = "ValueError"]
    ELSE IF e1 = Len(cig)
    THEN [st EXCEPT !.pc = "StopIteration", !.pos = e1 + 1]
    ELSE LET length == int(SubSeq(cig, st.pos, e1))
             op     == cig[e1 + 1]
             e2     == GroupEnd(cig, e1 + 1)
         IN  [pos |-> e2 + 1] @@ LoopBody(length, op, q, st.result, st.ref_result)

\* lines 140-142: the state before the first turn
StartState(r) == [pos |-> 1, result |-> 0, ref_result |-> r, pc |-> "loop"]

\* lines 144-167: the for statement run to its end from state st0: line 167
\* when the iterator is exhausted, else one more turn.  (st0 is bound once,
\* as st, so that each turn is evaluated once.)
RECURSIVE Walk(_, _, _)
Walk(cig, q, st0) ==
    CHOOSE end \in
        { IF st.pc # "loop" THEN st
          ELSE IF st.pos > Len(cig) THEN [st EXCEPT !.pc = "ret_end"]
          ELSE Walk(cig, q, ForIteration(cig, q, st)) : st \in {st0} } : TRUE

\* parse_cigar(cigar, qpos, rpos) as one call: the final state of the walk.
\* .pc says how it ended, .ref_result is the value returned when it returned.
parse_cigar(cig, q, r) == Walk(cig, q, StartState(r))

Returned == {"ret_early", "ret_end"}
Raised == {"ValueError", "StopIteration"}

----------------------------------------------------------------------------
(* Inputs of parse_cigar *)

Ops == {"M", "I", "D", "N", "S", "H", "P", "=", "X"}
LenDigits == {"0", "1", "2"}
RawChars == {"1", "2", "M", "D", "Z"}
RefStarts == {0, 100}

\* well-formed CIGAR strings of exactly n tokens, each one digit and one operator
RECURSIVE CigarsOf(_)
CigarsOf(n) ==
    IF n = 0 THEN {<<>>}
    ELSE {c \o <<dg, op>> : c \in CigarsOf(n - 1), dg \in LenDigits, op \in Ops}

\* every string over RawChars of exactly n characters
RECURSIVE StringsOf(_)
StringsOf(n) ==
    IF n = 0 THEN {<<>>}
    ELSE {s \o <<c>> : s \in StringsOf(n - 1), c \in RawChars}

GeneratedCigars ==
    UNION {CigarsOf(n) : n \in 1..MaxTokens} \cup UNION {StringsOf(n) : n \in 0..MaxStrLen}

\* the calls spelled out in the documentation of the mapper
ExampleCalls ==
    { <<(<<"4", "M">>), 4, 100>>,
      <<(<<"3", "M", "2", "I", "3", "M">>), 3, 100>>,
      <<(<<"3", "M", "2", "I", "3", "M">>), 4, 100>>,
      <<(<<"3", "M", "2", "D", "3", "M">>), 3, 100>> }

----------------------------------------------------------------------------
(* parse_cigar as a state machine: Spec *)

Init ==
    /\ \/ cigar \in GeneratedCigars /\ qpos \in 0..MaxQpos /\ rpos \in RefStarts
       \/ \E call \in ExampleCalls : cigar = call[1] /\ qpos = call[2] /\ rpos = call[3]
    /\ pos = 1
    /\ result = 0
    /\ ref_result = rpos
    /\ ntok = 0
    /\ pc = "loop"
    /\ d = <<>>
    /\ tr_list = <<>>
    /\ queries = <<>>
    /\ for_list = <<>>
    /\ idx = 1
    /\ sorted_queries = <<>>
    /\ outfile = <<>>
    /\ mpc = "idle"

\* lines 144-166: the for statement takes the next group and runs its body
LoopIteration ==
    /\ pc = "loop"
    /\ pos <= Len(cigar)
    /\ \E st \in {ForIteration(cigar, qpos,
                  [pos |-> pos, result |-> result, ref_result |-> ref_result, pc |-> pc])} :
           /\ pos' = st.pos
           /\ result' = st.result
           /\ ref_result' = st.ref_result
           /\ pc' = st.pc
    /\ ntok' = ntok + 1
    /\ UNCHANGED <<cigar, qpos, rpos>>
    /\ UNCHANGED mainVars

\* line 167: the groupby iterator is exhausted, the for statement ends
LoopExhausted ==
    /\ pc = "loop"
    /\ pos > Len(cigar)
    /\ pc' = "ret_end"
    /\ UNCHANGED <<cigar, qpos, rpos, pos, result, ref_result, ntok>>
    /\ UNCHANGED mainVars

Next == LoopIteration \/ LoopExhausted

Spec == Init /\ [][Next]_vars

\* parse_cigar is synchronous straight-line code: a turn that can be taken is taken
FairSpec == Spec /\ WF_vars(Next)

----------------------------------------------------------------------------
(* Python built-ins used by __main__ *)

DigitChar(k) == CHOOSE c \in Digits : DigitVal(c) = k

\* str(n) of a non-negative int (line 235)
RECURSIVE str(_)
str(n) ==
    IF n < 10 THEN <<DigitChar(n)>>
    ELSE str(n \div 10) \o <<DigitChar(n % 10)>>

\* code points of the one-letter transcript names of the model
ord(name) == CASE name = "A" -> 65 [] name = "B" -> 66 [] name = "C" -> 67

\* Python's < on two keys, each a tuple of ints: the first differing field
\* decides, a proper prefix is smaller.  (An int key k is the tuple <<k>>.)
KeyLt(a, b) ==
    \/ \E k \in 1..Len(a) :
          /\ k <= Len(b)
          /\ a[k] < b[k]
          /\ \A j \in 1..(k - 1) : a[j] = b[j]
    \/ /\ Len(a) < Len(b)
       /\ \A j \in 1..Len(a) : a[j] = b[j]

\* sorted(seq, key=...): Python's sort is stable and ascending.  keys[i] is
\* the key of seq[i]; the element at index i goes after every element with a
\* smaller key and after the earlier elements with an equal key.
sorted(seq, keys) ==
    LET n == Len(seq)
        rank(i) == 1 + Cardinality({j \in 1..n :
                        \E kj \in {keys[j]}, ki \in {keys[i]} :
                            \/ KeyLt(kj, ki)
                            \/ j < i /\ kj = ki})
    IN  [k \in 1..n |-> seq[CHOOSE i \in 1..n : rank(i) = k]]

\* dict.get (line 215): <<value>> when the key is present, <<>> for None
dict_get(tbl, key) == IF key \in DOMAIN tbl THEN <<tbl[key]>> ELSE <<>>

----------------------------------------------------------------------------
(* __main__, lines 210-236 *)

\* line 213: key = lambda i: (i[0], i[1]); the name compares by code point
QueryKey(q) == <<ord(q[1]), q[2]>>

\* line 213: the order in which the queries are mapped
SortedTrList(trl) == sorted(trl, [i \in 1..Len(trl) |-> QueryKey(trl[i])])

\* a function with domain 1..n as an explicit tuple
AsTuple(f) ==
    LET RECURSIVE build(_)
        build(k) == IF k = 0 THEN <<>> ELSE Append(build(k - 1), f[k])
    IN  build(Len(f))

\* MapQuery that skips a query whose transcript is not in the table
MapQuery_skipUnknown(tbl, qs, q) ==
    LET got == dict_get(tbl, q[1]) IN
    IF got = <<>>
    THEN [queries |-> qs, raised |-> FALSE]
    ELSE LET chrname == got[1][1]
             rp      == got[1][2]
             cig     == got[1][3]
             walk    == parse_cigar(cig, q[2], rp)
         IN  IF walk.pc \in Raised
             THEN [queries |-> qs, raised |-> TRUE]
             ELSE [queries |-> Append(qs, <<q[1], q[2], chrname, walk.ref_result>>),
                   raised  |-> FALSE]

\* lines 214-219: the body of the mapping loop for one query q = <<tr, tpos>>.
\* d.get(tr) is None for an unknown transcript and unpacking None raises
\* TypeError; an exception of parse_cigar propagates.  Either way the bare
\* except of line 220 is entered (raised = TRUE).
MapQuery(tbl, qs, q) ==
    LET got == dict_get(tbl, q[1]) IN
    IF got = <<>>
    THEN [queries |-> qs, raised |-> TRUE]
    ELSE LET chrname == got[1][1]
             rp      == got[1][2]
             cig     == got[1][3]
             walk    == parse_cigar(cig, q[2], rp)
         IN  IF walk.pc \in Raised
             THEN [queries |-> qs, raised |-> TRUE]
             ELSE [queries |-> Append(qs, <<q[1], q[2], chrname, walk.ref_result>>),
                   raised  |-> FALSE]

\* line 227: keys = {tuple(e): i for i, e in enumerate(tr_list)}; a later
\* entry with the same key overwrites the earlier one (indices are 1-based here)
keys_get(trl, key) ==
    LET at == {i \in 1..Len(trl) : trl[i] = key}
    IN  CHOOSE i \in at : \A j \in at : j <= i

\* line 228: sorted(queries, key=lambda x: keys.get(tuple(x[:2])))
RestoreOrder(trl, qs) ==
    sorted(qs, [i \in 1..Len(qs) |-> <<keys_get(trl, <<qs[i][1], qs[i][2]>>)>>])

\* line 235: one output line, '\t'.join(map(str, query)) + '\n', kept as the
\* tuple of its four tab-separated fields
OutputLine(row) == <<row[1], str(row[2]), row[3], str(row[4])>>

\* the reference tables of the model: transcript -> [chrname, rpos, cigar]
RefTables ==
    { [tr \in {"A", "B"} |->
         IF tr = "A" THEN <<"chr1", 100, <<"3", "M", "2", "I", "3", "M">> >>
                     ELSE <<"chr2", 0, <<"2", "M", "1", "D", "2", "M">> >>],
      [tr \in {"A", "B"} |->
         IF tr = "A" THEN <<"chr1", 100, <<"3", "M">> >>
                     ELSE <<"chr2", 0, <<"2", "M", "1">> >>] }

QueryNames == {"A", "B", "C"}

RECURSIVE QueryLists(_)
QueryLists(n) ==
    IF n = 0 THEN {<<>>}
    ELSE {l \o << <<tr, tpos>> >> : l \in QueryLists(n - 1),
                                   tr \in QueryNames, tpos \in 0..MaxTpos}

\* the state at line 210: both files read (neither is empty, checkfile)
MainInit ==
    /\ d \in RefTables
    /\ tr_list \in UNION {QueryLists(n) : n \in 1..MaxQueries}
    /\ queries = <<>>
    /\ for_list = <<>>
    /\ idx = 1
    /\ sorted_queries = <<>>
    /\ outfile = <<>>
    /\ mpc = "sort"
    /\ cigar = <<>>
    /\ qpos = 0
    /\ rpos = 0
    /\ pos = 1
    /\ result = 0
    /\ ref_result = 0
    /\ ntok = 0
    /\ pc = "idle"

\* lines 211-213: queries = [] and the for statement evaluates
\* sorted(tr_list, key=...) once, before its first turn
MapLoopEnter ==
    /\ mpc = "sort"
    /\ for_list' = AsTuple(SortedTrList(tr_list))
    /\ mpc' = "map"
    /\ UNCHANGED <<d, tr_list, queries, idx, sorted_queries, outfile>>
    /\ UNCHANGED cigarVars

\* lines 213-223: one turn of the mapping loop; an exception ends the run
\* with exit(1)
MapLoopIteration ==
    /\ mpc = "map"
    /\ idx <= Len(for_list)
    /\ \E m \in {MapQuery(d, queries, for_list[idx])} :
           /\ queries' = m.queries
           /\ \/ m.raised /\ mpc' = "exit1" /\ idx' = idx
              \/ ~m.raised /\ mpc' = "map" /\ idx' = idx + 1
    /\ UNCHANGED <<d, tr_list, for_list, sorted_queries, outfile>>
    /\ UNCHANGED cigarVars

\* line 213: the sorted list is exhausted
MapLoopDone ==
    /\ mpc = "map"
    /\ idx > Len(for_list)
    /\ mpc' = "restore"
    /\ UNCHANGED <<d, tr_list, queries, for_list, idx, sorted_queries, outfile>>
    /\ UNCHANGED cigarVars

\* lines 226-228: put the rows in the order of the query file
Restore ==
    /\ mpc = "restore"
    /\ sorted_queries' = AsTuple(RestoreOrder(tr_list, queries))
    /\ mpc' = "write"
    /\ UNCHANGED <<d, tr_list, queries, for_list, idx, outfile>>
    /\ UNCHANGED cigarVars

\* lines 234-236: write the output file
WriteOutput ==
    /\ mpc = "write"
    /\ outfile' = [i \in 1..Len(sorted_queries) |-> OutputLine(sorted_queries[i])]
    /\ mpc' = "done"
    /\ UNCHANGED <<d, tr_list, queries, for_list, idx, sorted_queries>>
    /\ UNCHANGED cigarVars

MainNext == MapLoopEnter \/ MapLoopIteration \/ MapLoopDone \/ Restore \/ WriteOutput

MainSpec == MainInit /\ [][MainNext]_vars

\* __main__ is one sequential process: each statement that can run does run
MainFairSpec == MainSpec /\ WF_vars(MainNext)

----------------------------------------------------------------------------
(* Vocabulary of the properties *)

\* the grammar (digits operator)+ over the nine operators: the string is not
\* empty, ends with a character that is not a digit, and every character
\* that is not a digit is an operator that directly follows a digit
WellFormed(s) ==
    /\ s # <<>>
    /\ s[Len(s)] \notin Digits
    /\ \A i \in 1..Len(s) :
          s[i] \notin Digits => s[i] \in Ops /\ i > 1 /\ s[i - 1] \in Digits

\* index of the operator before index i of a well-formed string, 0 if none
PrevOp(s, i) ==
    LET before == {j \in 1..(i - 1) : s[j] \notin Digits}
    IN  IF before = {} THEN 0 ELSE CHOOSE j \in before : \A k \in before : k <= j

\* length of the token whose operator stands at index i
TokenLen(s, i) == int(SubSeq(s, PrevOp(s, i) + 1, i - 1))

NumTokens(s) == Cardinality({i \in 1..Len(s) : s[i] \notin Digits})

\* sum of the lengths of the tokens among the first i characters whose
\* operator is in opset
RECURSIVE SumLens(_, _, _)
SumLens(s, i, opset) ==
    IF i = 0 THEN 0
    ELSE (IF s[i] \in opset THEN TokenLen(s, i) ELSE 0) + SumLens(s, i - 1, opset)

QuerySum(s) == SumLens(s, Len(s), {"M", "=", "X", "I", "S"})
RefSum(s) == SumLens(s, Len(s), {"M", "=", "X", "D", "H"})

\* the token the next turn of the for statement takes (well-formed string,
\* pos <= Len(cigar))
CurOpIndex == CHOOSE i \in pos..Len(cigar) : cigar[i] \notin Digits /\ PrevOp(cigar, i) < pos
CurOp == cigar[CurOpIndex]
CurLen == TokenLen(cigar, CurOpIndex)

\* the string is the single token "L M" with L >= 1
SingleMatch(s) ==
    /\ WellFormed(s)
    /\ NumTokens(s) = 1
    /\ s[Len(s)] = "M"
    /\ TokenLen(s, Len(s)) >= 1

Cigar_3M2I3M == <<"3", "M", "2", "I", "3", "M">>
Cigar_3M2D3M == <<"3", "M", "2", "D", "3", "M">>
Cigar_4M == <<"4", "M">>

HasUnknown == \E i \in 1..Len(tr_list) : tr_list[i][1] \notin DOMAIN d

----------------------------------------------------------------------------
(* Properties *)

\* C1: monotonicity of parse_cigar -- for a well-formed CIGAR string and a
\* fixed reference start, a query position q1 <= qpos is never mapped to a
\* reference position greater than the one qpos is mapped to.
C1_Monotonic ==
    (WellFormed(cigar) /\ pc \in Returned) =>
        \A q1 \in 0..qpos :
            LET w == parse_cigar(cigar, q1, rpos)
            IN  w.pc \in Returned => w.ref_result <= ref_result

\* C2: order restoration -- when the run has written its output, the file has
\* as many lines as the query list has rows, and line i carries the
\* transcript id and the query position of row i of the query list.
C2_OrderRestored ==
    mpc = "done" =>
        /\ Len(outfile) = Len(tr_list)
        /\ \A i \in 1..Len(tr_list) :
              /\ outfile[i][1] = tr_list[i][1]
              /\ outfile[i][2] = str(tr_list[i][2])

\* C3: lower bound -- in every state of the walk the reference cursor is at
\* least the reference start, so the returned value is too.
C3_LowerBound == ref_result >= rpos

C3_Witness ==
    /\ pc = "ret_early"
    /\ ntok >= 2
    /\ ref_result > rpos

\* C4: a malformed CIGAR string is fatal -- when the string is not well
\* formed, parse_cigar ends with an exception and never returns a position.
C4_MalformedFatal ==
    (~WellFormed(cigar) /\ pc # "loop") => pc \in Raised

\* C5: an unknown transcript aborts the run -- when some query names a
\* transcript that is not in the reference table, the run never leaves the
\* mapping loop except by exit(1), every query taken so far has produced a
\* row (none was skipped), nothing is written, and exit(1) is reached.
C5_UnknownAborts ==
    /\ [](HasUnknown =>
            /\ mpc \in {"sort", "map", "exit1"}
            /\ Len(queries) = idx - 1
            /\ \A j \in 1..(idx - 1) : for_list[j][1] \in DOMAIN d
            /\ outfile = <<>>)
    /\ [](HasUnknown => <>(mpc = "exit1"))

C5_Witness ==
    /\ HasUnknown
    /\ mpc = "exit1"
    /\ Len(queries) >= 1
    /\ tr_list[1][1] \in DOMAIN d
    /\ outfile = <<>>

\* C6: boundary freeze -- once the query cursor has reached qpos, a turn of the
\* loop changes neither cursor, whatever the operator; so for qpos = 0 the
\* result is the reference start, and 3M2D3M maps 3 to 103 from 100.
C6_BoundaryFreeze ==
    /\ [][(pc = "loop" /\ result >= qpos) =>
             (result' = result /\ ref_result' = ref_result)]_vars
    /\ []((pc \in Returned /\ qpos = 0) => ref_result = rpos)
    /\ []((cigar = Cigar_3M2D3M /\ qpos = 3 /\ rpos = 100 /\ pc \in Returned)
             => ref_result = 103)

C6_Witness ==
    /\ cigar = Cigar_3M2D3M
    /\ qpos = 3
    /\ rpos = 100
    /\ pc = "ret_end"
    /\ ntok = 3
    /\ ref_result = 103

\* C7: query-only overshoot -- a turn that takes an I or S token which would
\* carry the query cursor past qpos changes neither cursor and does not
\* return; so 3M2I3M maps 4 to 104 and 3 to 103 from 100.
C7_QueryOnlyOvershoot ==
    /\ [][(/\ WellFormed(cigar)
           /\ pc = "loop"
           /\ pos <= Len(cigar)
           /\ result < qpos
           /\ CurOp \in {"I", "S"}
           /\ result + CurLen > qpos)
          => (result' = result /\ ref_result' = ref_result /\ pc' = "loop")]_vars
    /\ []((cigar = Cigar_3M2I3M /\ rpos = 100 /\ pc \in Returned) =>
             /\ qpos = 4 => ref_result = 104
             /\ qpos = 3 => ref_result = 103)

C7_Witness ==
    /\ cigar = Cigar_3M2I3M
    /\ qpos = 4
    /\ rpos = 100
    /\ pc = "ret_early"
    /\ ref_result = 104

\* C8 as stated: for the single token "L M" and 0 <= qpos <= L the result is
\* rpos + qpos, by the early return for every qpos < L and by loop
\* exhaustion for qpos = L.
C8_SingleMatchAsStated ==
    (SingleMatch(cigar) /\ qpos <= TokenLen(cigar, Len(cigar)) /\ pc # "loop") =>
        /\ pc \in Returned
        /\ ref_result = rpos + qpos
        /\ qpos < TokenLen(cigar, Len(cigar)) => pc = "ret_early"
        /\ qpos = TokenLen(cigar, Len(cigar)) => pc = "ret_end"

\* C8 (amended): for the single token "L M" and 0 <= qpos <= L the result is
\* rpos + qpos, by the early return exactly when 0 < qpos < L and by loop
\* exhaustion when qpos = 0 or qpos = L; 4M maps 4 to 104 from 100.
C8_SingleMatch ==
    /\ (SingleMatch(cigar) /\ qpos <= TokenLen(cigar, Len(cigar)) /\ pc # "loop") =>
          /\ pc \in Returned
          /\ ref_result = rpos + qpos
          /\ pc = "ret_early" <=> (0 < qpos /\ qpos < TokenLen(cigar, Len(cigar)))
    /\ (cigar = Cigar_4M /\ qpos = 4 /\ rpos = 100 /\ pc # "loop") =>
          (pc = "ret_end" /\ ref_result = 104)

C8_Witness ==
    /\ SingleMatch(cigar)
    /\ 0 < qpos
    /\ qpos < TokenLen(cigar, Len(cigar))
    /\ pc = "ret_early"
    /\ ref_result = rpos + qpos

\* C9: termination in one pass -- every turn of the loop moves the iterator
\* forward, so no token is taken twice; for a well-formed string the number
\* of turns never exceeds the number of tokens and the walk returns.
C9_Termination ==
    /\ [][(pc = "loop" /\ pc' = "loop") => (pos' > pos /\ ntok' = ntok + 1)]_vars
    /\ [](WellFormed(cigar) => ntok <= NumTokens(cigar))
    /\ WellFormed(cigar) => <>(pc \in Returned)

C9_Witness ==
    /\ WellFormed(cigar)
    /\ pc = "ret_end"
    /\ ntok = NumTokens(cigar)
    /\ ntok >= 2

\* C10: clamp -- for a well-formed string and a qpos greater than the sum of
\* the lengths of its M, =, X, I, S tokens, the walk raises nothing, never
\* returns early, and returns rpos plus the sum of the lengths of its
\* M, =, X, D, H tokens.
C10_Clamp ==
    (WellFormed(cigar) /\ qpos > QuerySum(cigar)) =>
        /\ pc \in {"loop", "ret_end"}
        /\ pc = "ret_end" => ref_result = rpos + RefSum(cigar)

C10_Witness ==
    /\ WellFormed(cigar)
    /\ qpos > QuerySum(cigar)
    /\ pc = "ret_end"
    /\ \E i \in 1..Len(cigar) : cigar[i] \in {"D", "H"} /\ TokenLen(cigar, i) > 0
    /\ \E i \in 1..Len(cigar) : cigar[i] \in {"I", "S", "N", "P"} /\ TokenLen(cigar, i) > 0
    /\ ref_result > rpos

====
